---- MODULE Spec2Model ----
\* Model of github.com/MorganR/http-load-tester: the load package (Tester,
\* StressResult, AggregateResult) and the parts of main that drive it.
\* Four specifications share the module:
\*   SpecAgg  - the AggregateResult add/merge algebra on a pool of aggregates;
\*   SpecInit - Tester.Init followed by single classified fetches;
\*   Spec     - one Tester.Stress stage (coordinator, P workers, errgroup token);
\*   FairSpec - Spec with the fairness the Go scheduler and the deadline give.
EXTENDS Integers, Sequences, FiniteSets, TLC

VARIABLES
    aggs,           \* SpecAgg: pool of AggregateResult values
    urls,           \* Tester.urls
    responseByUrl,  \* Tester.responseByUrl
    observed,       \* ghost: (status, body length) last observed by Init per URL
    probesSent,     \* ghost: outcomes of the probes Init actually sent
    initState,      \* "new" | "ready" | "failed"
    initErr,        \* error returned by Init
    lastFetch,      \* SpecInit: the last fetchAndVerifyUrl call and its outcome
    oneResult,      \* SpecInit: a StressResult to which the last outcome was added
    concurrency,    \* Stress: parameter P
    cpc,            \* Stress: coordinator position
    spawned,        \* Stress: number of g.Go calls made
    received,       \* Stress: number of messages received from resultChan
    results,        \* Stress: coordinator's merged StressResult
    wpc,            \* worker position
    wurl,           \* URL of the worker's request in flight ("" when none)
    wresult,        \* worker-local StressResult
    werr,           \* transport error seen by the worker (0 = nil)
    parentDone,     \* the caller's deadline context has fired
    ctxDone,        \* the errgroup context has fired
    gErr,           \* errgroup's first error (0 = nil)
    ret,            \* value returned by Stress
    issued,         \* ghost: GETs handed to the client
    completed,      \* ghost: GETs that returned a response
    sent,           \* ghost: messages each worker has sent on resultChan
    wissued,        \* ghost: GETs each worker has handed to the client
    wlate,          \* ghost: GETs each worker started after the token had fired
    outstanding,    \* pooled request/response objects acquired and not released
    printIn,        \* SpecPrint: the StressResult String is called on
    printKeys,      \* SpecPrint: the keys in the order maps.Keys returned them
    printOut,       \* SpecPrint: the rows String wrote (<<>> before the call)
    flags,          \* main: the parsed command-line flags
    mpc,            \* main: position
    concurrencyCap, \* main: concurrencyCap
    mconcurrency,   \* main: the loop variable concurrency
    lastConcurrency,\* main: lastConcurrency
    shouldContinue, \* main: shouldContinue
    poolLimit,      \* main: argument given to NewTester (<<>> before the call)
    probed,         \* main: tester.Init has been called
    stages,         \* main: parallelism of every Stress call made, in order
    stageOut,       \* main: totals of the last stage
    addResult,      \* SpecAdd: the StressResult that add is called on
    addLog,         \* SpecAdd: the (url, outcome) pairs added so far, in order
    stageNo,        \* SpecStages: number of stages of the ramp that have returned
    leaked          \* SpecStages: workers of earlier stages that had not exited
                    \* when the next stage began

aggVars == <<aggs>>
testerVars == <<urls, responseByUrl, observed>>
initVars == <<probesSent, initState, initErr, lastFetch, oneResult>>
stressVars == <<concurrency, cpc, spawned, received, results, wpc, wurl, wresult,
                werr, parentDone, ctxDone, gErr, ret, issued, completed, sent,
                wissued, wlate>>
poolVars == <<outstanding>>
printVars == <<printIn, printKeys, printOut>>
rampVars == <<flags, mpc, concurrencyCap, mconcurrency, lastConcurrency, shouldContinue,
              poolLimit, probed, stages, stageOut>>
addVars == <<addResult, addLog>>
runVars == <<stageNo, leaked>>
vars == <<aggs, urls, responseByUrl, observed, probesSent, initState, initErr,
          lastFetch, oneResult, concurrency, cpc, spawned, received, results, wpc,
          wurl, wresult, werr, parentDone, ctxDone, gErr, ret, issued, completed, sent,
          wissued, wlate, outstanding, printIn, printKeys, printOut, flags, mpc,
          concurrencyCap, mconcurrency, lastConcurrency, shouldContinue, poolLimit,
          probed, stages, stageOut, addResult, addLog, stageNo, leaked>>

\* ---------------------------------------------------------------- bounds
MaxCalls == 3        \* SpecAgg: cap on NumCalls of one aggregate
MaxUrls == 2         \* SpecInit: longest URL list given to Init
MaxP == 2            \* Spec: largest parallelism of a stage
MaxGets == 2         \* Spec: GETs issued before the deadline fires

\* ---------------------------------------------------------------- constants
bodyLengthAllowedChange == 10

URLs == {"/a", "/b"}
Latencies == {1, 2}
StressLatencies == {1}
ByteCounts == {0, 1}
NoErr == 0

Max2(a, b) == IF a > b THEN a ELSE b

\* ---------------------------------------------------------------- AggregateResult
EmptyAgg ==
    [NumCalls |-> 0, TotalBytesReceived |-> 0, TotalLatency |-> 0,
     MaxLatency |-> 0, MinLatency |-> 0]

\* urlResult
UrlResult(valid, bytes, lat) == [isValid |-> valid, bytesReceived |-> bytes, latency |-> lat]

\* faulty variant: MinLatency is lowered only, so it never leaves its zero value
AggAdd_MinOnlyLowered(r, toAdd) ==
    [NumCalls |-> r.NumCalls + 1,
     TotalBytesReceived |-> r.TotalBytesReceived + toAdd.bytesReceived,
     TotalLatency |-> r.TotalLatency + toAdd.latency,
     MaxLatency |-> IF toAdd.latency > r.MaxLatency THEN toAdd.latency ELSE r.MaxLatency,
     MinLatency |-> IF toAdd.latency < r.MinLatency THEN toAdd.latency ELSE r.MinLatency]

\* (r *AggregateResult) add(toAdd)
AggAdd(r, toAdd) ==
    [NumCalls |-> r.NumCalls + 1,
     TotalBytesReceived |-> r.TotalBytesReceived + toAdd.bytesReceived,
     TotalLatency |-> r.TotalLatency + toAdd.latency,
     MaxLatency |-> IF toAdd.latency > r.MaxLatency THEN toAdd.latency ELSE r.MaxLatency,
     MinLatency |-> IF toAdd.latency < r.MinLatency \/ r.MinLatency = 0
                    THEN toAdd.latency ELSE r.MinLatency]

\* (r *AggregateResult) merge(other)
AggMerge(r, other) ==
    [NumCalls |-> r.NumCalls + other.NumCalls,
     TotalBytesReceived |-> r.TotalBytesReceived + other.TotalBytesReceived,
     TotalLatency |-> r.TotalLatency + other.TotalLatency,
     MaxLatency |-> IF other.MaxLatency > r.MaxLatency THEN other.MaxLatency ELSE r.MaxLatency,
     MinLatency |-> IF other.MinLatency < r.MinLatency \/ r.MinLatency = 0
                    THEN other.MinLatency ELSE r.MinLatency]

\* ---------------------------------------------------------------- ResultWithValidity
EmptyRV == [Successes |-> EmptyAgg, Failures |-> EmptyAgg]

\* (rv *ResultWithValidity) merge(other)
RVMerge(rv, other) ==
    [Successes |-> AggMerge(rv.Successes, other.Successes),
     Failures |-> AggMerge(rv.Failures, other.Failures)]

\* ---------------------------------------------------------------- StressResult
\* ResultsByUrl is a function whose domain is the set of keys of the map.
newStressResult == [u \in {} |-> EmptyRV]

\* (r *StressResult) add(url, toAdd)
SRAdd(r, url, toAdd) ==
    LET rv == IF url \in DOMAIN r THEN r[url] ELSE EmptyRV
        nrv == IF toAdd.isValid
               THEN [rv EXCEPT !.Successes = AggAdd(rv.Successes, toAdd)]
               ELSE [rv EXCEPT !.Failures = AggAdd(rv.Failures, toAdd)]
    IN [u \in DOMAIN r \cup {url} |-> IF u = url THEN nrv ELSE r[u]]

\* faulty variant: an entry of other replaces the entry already present
SRMerge_Overwrite(r, other) ==
    [u \in DOMAIN r \cup DOMAIN other |-> IF u \in DOMAIN other THEN other[u] ELSE r[u]]

\* faulty variant: only the keys of other survive a merge
SRMerge_DropsKeys(r, other) ==
    [u \in DOMAIN other |->
        IF u \in DOMAIN r THEN RVMerge(r[u], other[u]) ELSE other[u]]

\* (r *StressResult) merge(other)
SRMerge(r, other) ==
    [u \in DOMAIN r \cup DOMAIN other |->
        IF u \in DOMAIN other
        THEN IF u \in DOMAIN r THEN RVMerge(r[u], other[u]) ELSE other[u]
        ELSE r[u]]

\* numSuccess + numFailures as summed by stressTestWithConcurrency
RECURSIVE SumCalls(_, _)
SumCalls(r, keys) ==
    IF keys = {} THEN 0
    ELSE LET u == CHOOSE k \in keys : TRUE
         IN r[u].Successes.NumCalls + r[u].Failures.NumCalls + SumCalls(r, keys \ {u})

TotalCalls(r) == SumCalls(r, DOMAIN r)

\* ---------------------------------------------------------------- HTTP client
\* client.Do(req, resp): a transport-level error, or a status and a body.
TransportError == [err |-> TRUE, status |-> 0, len |-> 0]
Response(status, len) == [err |-> FALSE, status |-> status, len |-> len]

ProbeStatuses == {200, 299, 300, 404}
BaseLens == {3, 12}
ProbeOutcomes == {TransportError} \cup {Response(s, l) : s \in ProbeStatuses, l \in BaseLens}

FetchStatuses == ProbeStatuses \cup {500}
\* body lengths at, next to and beyond both ends of each baseline's tolerance
FetchLens ==
    {l \in UNION {{b - bodyLengthAllowedChange - 1, b - bodyLengthAllowedChange, b,
                   b + bodyLengthAllowedChange, b + bodyLengthAllowedChange + 1} :
                  b \in BaseLens} : l >= 0}
FetchOutcomes == {TransportError} \cup {Response(s, l) : s \in FetchStatuses, l \in FetchLens}

\* ---------------------------------------------------------------- buffer pool
\* fasthttp.AcquireRequest() / fasthttp.AcquireResponse(): one more object is out
Acquire(n) == n + 1

\* objects Init takes from the pool: one request before the loop and one
\* response in every iteration it starts (nSent iterations); it releases none
InitAcquired(nSent) == Acquire(nSent)

\* objects fetchAndVerifyUrl takes from the pool: a request and a response;
\* it releases none, on the error path or otherwise
FetchAcquired(n) == Acquire(Acquire(n))

\* ---------------------------------------------------------------- Tester
UrlLists == UNION {[1..n -> URLs] : n \in 0..MaxUrls}

\* expectedResponseData as built by Init from one probe
expectedResponseData(status, bodyLen) ==
    [StatusCode |-> status,
     MinLength |-> bodyLen - bodyLengthAllowedChange,
     MaxLength |-> bodyLen + bodyLengthAllowedChange]

\* resp.StatusCode() >= 200 && resp.StatusCode() < 300
Is2xx(status) == status >= 200 /\ status < 300

\* faulty variant: Init does not look at atLeastOneSucceeded
InitFinalErr_Ignored(atLeastOneSucceeded) == "nil"

\* the final check of Init on atLeastOneSucceeded
InitFinalErr(atLeastOneSucceeded) ==
    IF ~atLeastOneSucceeded THEN "all requests failed" ELSE "nil"

\* The loop of Init over urls: stops at the first transport error, otherwise
\* overwrites the table entry of each URL in list order.
RECURSIVE InitLoop(_, _, _, _, _, _)
InitLoop(us, ps, i, tbl, obs, atLeastOneSucceeded) ==
    IF i > Len(us)
    THEN [responseByUrl |-> tbl, observed |-> obs, sent |-> Len(us),
          err |-> InitFinalErr(atLeastOneSucceeded)]
    ELSE IF ps[i].err
    THEN [responseByUrl |-> tbl, observed |-> obs, sent |-> i, err |-> "failed to fetch url"]
    ELSE InitLoop(us, ps, i + 1,
                  [u \in DOMAIN tbl \cup {us[i]} |->
                      IF u = us[i] THEN expectedResponseData(ps[i].status, ps[i].len)
                      ELSE tbl[u]],
                  [u \in DOMAIN obs \cup {us[i]} |->
                      IF u = us[i] THEN [status |-> ps[i].status, len |-> ps[i].len]
                      ELSE obs[u]],
                  atLeastOneSucceeded \/ Is2xx(ps[i].status))

EmptyTable == [u \in {} |-> expectedResponseData(0, 0)]
EmptyObserved == [u \in {} |-> [status |-> 0, len |-> 0]]

\* faulty variant: Init stops one URL short of the end of the list
TesterInitResult_SkipsLast(us, ps) ==
    IF us = <<>> THEN InitLoop(us, ps, 1, EmptyTable, EmptyObserved, FALSE)
    ELSE InitLoop(SubSeq(us, 1, Len(us) - 1), ps, 1, EmptyTable, EmptyObserved, TRUE)

\* (t *Tester) Init(urls)
TesterInitResult(us, ps) == InitLoop(us, ps, 1, EmptyTable, EmptyObserved, FALSE)

\* faulty variant: the upper end of the tolerance is excluded
isValid_UpperExclusive(exp, code, bodyLen) ==
    code = exp.StatusCode /\ bodyLen >= exp.MinLength /\ bodyLen < exp.MaxLength

\* (exp *expectedResponseData) isValid(code, body)
isValid(exp, code, bodyLen) ==
    code = exp.StatusCode /\ bodyLen >= exp.MinLength /\ bodyLen <= exp.MaxLength

\* (t *Tester) fetchAndVerifyUrl(u, concurrency): the urlResult of a response
fetchAndVerifyUrl(tbl, u, resp, lat) ==
    IF resp.err THEN UrlResult(FALSE, 0, 0)
    ELSE UrlResult(isValid(tbl[u], resp.status, resp.len), resp.len, lat)

\* ---------------------------------------------------------------- idle values
NoFetch == [called |-> FALSE, url |-> "", resp |-> TransportError,
            r |-> UrlResult(FALSE, 0, 0), err |-> FALSE]
NoReturn == [returned |-> FALSE, hasResult |-> FALSE, result |-> newStressResult, err |-> NoErr]

AggIdle == aggs = [i \in {} |-> EmptyAgg]

TesterNew ==
    /\ urls = <<>>
    /\ responseByUrl = EmptyTable
    /\ observed = EmptyObserved

InitIdle ==
    /\ probesSent = <<>>
    /\ initState = "new"
    /\ initErr = "nil"
    /\ lastFetch = NoFetch
    /\ oneResult = newStressResult

StressIdle ==
    /\ concurrency = 0
    /\ cpc = "idle"
    /\ spawned = 0
    /\ received = 0
    /\ results = newStressResult
    /\ wpc = <<>>
    /\ wurl = <<>>
    /\ wresult = <<>>
    /\ werr = <<>>
    /\ parentDone = FALSE
    /\ ctxDone = FALSE
    /\ gErr = NoErr
    /\ ret = NoReturn
    /\ issued = 0
    /\ completed = 0
    /\ sent = <<>>
    /\ wissued = <<>>
    /\ wlate = <<>>

PrintIdle ==
    /\ printIn = newStressResult
    /\ printKeys = <<>>
    /\ printOut = <<>>

RampIdle ==
    /\ flags = <<>>
    /\ mpc = "idle"
    /\ concurrencyCap = 0
    /\ mconcurrency = 0
    /\ lastConcurrency = 0
    /\ shouldContinue = FALSE
    /\ poolLimit = <<>>
    /\ probed = FALSE
    /\ stages = <<>>
    /\ stageOut = <<>>

AddIdle ==
    /\ addResult = newStressResult
    /\ addLog = <<>>

RunIdle ==
    /\ stageNo = 0
    /\ leaked = 0

\* ================================================================ SpecAgg
AggIds == {"a", "b", "c"}

InitAgg ==
    /\ aggs = [i \in AggIds |-> EmptyAgg]
    /\ TesterNew /\ InitIdle /\ StressIdle /\ PrintIdle /\ RampIdle /\ AddIdle /\ RunIdle
    /\ outstanding = 0

\* aggs[i].add(&urlResult{bytesReceived: bytes, latency: lat})
AddOp(i, bytes, lat) ==
    /\ aggs[i].NumCalls < MaxCalls
    /\ aggs' = [aggs EXCEPT ![i] = AggAdd(aggs[i], UrlResult(TRUE, bytes, lat))]
    /\ UNCHANGED <<testerVars, initVars, stressVars,
                   poolVars,
                   printVars, rampVars, addVars, runVars>>

\* aggs[i].merge(&aggs[j])
MergeOp(i, j) ==
    /\ i # j
    /\ aggs[i].NumCalls + aggs[j].NumCalls <= MaxCalls
    /\ aggs' = [aggs EXCEPT ![i] = AggMerge(aggs[i], aggs[j])]
    /\ UNCHANGED <<testerVars, initVars, stressVars,
                   poolVars,
                   printVars, rampVars, addVars, runVars>>

NextAgg ==
    \/ \E i \in AggIds, bytes \in ByteCounts, lat \in Latencies : AddOp(i, bytes, lat)
    \/ \E i \in AggIds, j \in AggIds : MergeOp(i, j)

SpecAgg == InitAgg /\ [][NextAgg]_vars

\* ================================================================ SpecInit
InitTester ==
    /\ AggIdle /\ TesterNew /\ InitIdle /\ StressIdle /\ PrintIdle /\ RampIdle /\ AddIdle /\ RunIdle
    /\ outstanding = 0

\* tester.Init(us), with ps[i] the client's answer to the probe of us[i]
TesterInit(us, ps) ==
    /\ initState = "new"
    /\ LET res == TesterInitResult(us, ps)
       IN /\ urls' = us
          /\ responseByUrl' = res.responseByUrl
          /\ observed' = res.observed
          /\ probesSent' = SubSeq(ps, 1, res.sent)
          /\ initErr' = res.err
          /\ initState' = IF res.err = "nil" THEN "ready" ELSE "failed"
          /\ outstanding' = outstanding + InitAcquired(res.sent)
    /\ UNCHANGED <<aggVars, lastFetch, oneResult, stressVars,
                   printVars, rampVars, addVars, runVars>>

\* One iteration of the worker loop on a fresh StressResult (the first
\* iteration of a worker; the Tester is not changed by it):
\* u := t.urls[i]; r, err := t.fetchAndVerifyUrl(u); result.add(u, r)
FetchOne(i, resp, lat) ==
    /\ initState = "ready"
    /\ ~lastFetch.called
    /\ i \in 1..Len(urls)
    /\ LET u == urls[i]
           r == fetchAndVerifyUrl(responseByUrl, u, resp, lat)
       IN /\ lastFetch' = [called |-> TRUE, url |-> u, resp |-> resp, r |-> r, err |-> resp.err]
          /\ oneResult' = IF resp.err THEN newStressResult
                          ELSE SRAdd(newStressResult, u, r)
    /\ outstanding' = FetchAcquired(outstanding)
    /\ UNCHANGED <<aggVars, testerVars, probesSent, initState, initErr, stressVars,
                   printVars, rampVars, addVars, runVars>>

NextInit ==
    \/ \E us \in UrlLists : \E ps \in [1..Len(us) -> ProbeOutcomes] : TesterInit(us, ps)
    \/ \E i \in 1..MaxUrls, resp \in FetchOutcomes, lat \in StressLatencies : FetchOne(i, resp, lat)

SpecInit == InitTester /\ [][NextInit]_vars

\* ================================================================ Spec
\* The Tester after a successful Init of two URLs (a 2xx and a 404 baseline).
StressUrls == <<"/a", "/b">>
StressProbes == <<Response(200, 12), Response(404, 3)>>

\* What the server may answer during a stage: the baseline response (a
\* success), a 500 (a failure), or a transport-level error.
StressOutcomes(u) ==
    {TransportError,
     Response(observed[u].status, observed[u].len),
     Response(500, observed[u].len)}

Workers == 1..concurrency

InitStress ==
    /\ AggIdle
    /\ urls = StressUrls
    /\ responseByUrl = TesterInitResult(StressUrls, StressProbes).responseByUrl
    /\ observed = TesterInitResult(StressUrls, StressProbes).observed
    /\ probesSent = StressProbes
    /\ initState = "ready"
    /\ initErr = "nil"
    /\ lastFetch = NoFetch
    /\ oneResult = newStressResult
    /\ StressIdle /\ PrintIdle /\ RampIdle /\ AddIdle /\ RunIdle
    /\ outstanding = InitAcquired(TesterInitResult(StressUrls, StressProbes).sent)

\* Stress(ctx, P): errgroup.WithContext(ctx) and make(chan StressResult)
StressStart(P) ==
    /\ cpc = "idle"
    /\ concurrency' = P
    /\ cpc' = "spawn"
    /\ spawned' = 0
    /\ received' = 0
    /\ results' = newStressResult
    /\ wpc' = [w \in 1..P |-> "unspawned"]
    /\ wurl' = [w \in 1..P |-> ""]
    /\ wresult' = [w \in 1..P |-> newStressResult]
    /\ werr' = [w \in 1..P |-> NoErr]
    /\ sent' = [w \in 1..P |-> 0]
    /\ wissued' = [w \in 1..P |-> 0]
    /\ wlate' = [w \in 1..P |-> 0]
    /\ ctxDone' = parentDone
    /\ gErr' = NoErr
    /\ UNCHANGED <<aggVars, testerVars, initVars, parentDone, ret, issued, completed,
                   poolVars,
                   printVars, rampVars, addVars, runVars>>

\* The deadline of the caller's context expires; the derived context fires too.
DeadlineFire ==
    /\ cpc \in {"spawn", "recv", "wait"}
    /\ ~parentDone
    /\ parentDone' = TRUE
    /\ ctxDone' = TRUE
    /\ UNCHANGED <<aggVars, testerVars, initVars, concurrency, cpc, spawned, received,
                   results, wpc, wurl, wresult, werr, gErr, ret, issued, completed, sent,
                   wissued, wlate, poolVars,
                   printVars, rampVars, addVars, runVars>>

\* g.Go(func() error { return t.fetchRandomUrls(ctx, concurrency, resultChan) })
Spawn ==
    /\ cpc = "spawn"
    /\ spawned < concurrency
    /\ spawned' = spawned + 1
    /\ wpc' = [wpc EXCEPT ![spawned + 1] = "check"]
    /\ cpc' = IF spawned + 1 = concurrency THEN "recv" ELSE "spawn"
    /\ UNCHANGED <<aggVars, testerVars, initVars, concurrency, received, results, wurl,
                   wresult, werr, parentDone, ctxDone, gErr, ret, issued, completed, sent,
                   wissued, wlate, poolVars,
                   printVars, rampVars, addVars, runVars>>

\* faulty variant: the worker returns ctx.Err() (a non-nil error, here -1) on the token path
TokenExitErr_CtxErr(w) == 0 - 1

\* the error a worker returns when it leaves the loop because ctx.Done() fired
TokenExitErr(w) == NoErr

\* faulty variant: the error path returns without sending on the channel
ErrPathPc_NoSend == "return"

\* the position a worker moves to when fetchAndVerifyUrl returned an error
ErrPathPc == "sendErr"

\* faulty variant: the worker polls the caller's context, not the group's
TokenFired_Parent(gdone, pdone) == pdone

\* case <-ctx.Done(), with ctx the context derived by errgroup.WithContext
TokenFired(gdone, pdone) == gdone

\* select { case <-ctx.Done(): isDone = true; default: }
\* The model lets at most MaxGets requests start before the deadline.
WorkerCheck(w) ==
    /\ w \in Workers
    /\ wpc[w] = "check"
    /\ \/ /\ TokenFired(ctxDone, parentDone)
          /\ wpc' = [wpc EXCEPT ![w] = "send"]
          /\ werr' = [werr EXCEPT ![w] = TokenExitErr(w)]
       \/ /\ ~TokenFired(ctxDone, parentDone)
          /\ issued + Cardinality({v \in Workers : wpc[v] = "issue"}) < MaxGets
          /\ wpc' = [wpc EXCEPT ![w] = "issue"]
          /\ werr' = werr
    /\ UNCHANGED <<aggVars, testerVars, initVars, concurrency, cpc, spawned, received,
                   results, wurl, wresult, parentDone, ctxDone, gErr, ret, issued,
                   completed, sent,
                   wissued, wlate, poolVars,
                   printVars, rampVars, addVars, runVars>>

\* faulty variant: the request is started without waiting for it
IssuePc_Async == "check"

\* the worker waits in t.client.Do(req, resp) until the request returns
IssuePc == "inflight"

\* u := t.randomURL(), with i the value of rand.Int() % n; t.client.Do(req, resp) starts
WorkerIssue(w, i) ==
    /\ w \in Workers
    /\ wpc[w] = "issue"
    /\ i \in 1..Len(urls)
    /\ wurl' = [wurl EXCEPT ![w] = urls[i]]
    /\ wpc' = [wpc EXCEPT ![w] = IssuePc]
    /\ issued' = issued + 1
    /\ wissued' = [wissued EXCEPT ![w] = wissued[w] + 1]
    /\ wlate' = [wlate EXCEPT ![w] = wlate[w] + (IF ctxDone THEN 1 ELSE 0)]
    /\ outstanding' = FetchAcquired(outstanding)
    /\ UNCHANGED <<aggVars, testerVars, initVars, concurrency, cpc, spawned, received,
                   results, wresult, werr, parentDone, ctxDone, gErr, ret, completed, sent,
                   printVars, rampVars, addVars, runVars>>

\* t.client.Do returns; on an error the worker heads for rc <- StressResult{},
\* otherwise result.add(u, r) and the loop goes round
GetReturn(w, resp, lat) ==
    /\ w \in Workers
    /\ wpc[w] = "inflight"
    /\ resp \in StressOutcomes(wurl[w])
    /\ IF resp.err
       THEN /\ werr' = [werr EXCEPT ![w] = w]
            /\ wpc' = [wpc EXCEPT ![w] = ErrPathPc]
            /\ UNCHANGED <<wresult, completed>>
       ELSE /\ wresult' = [wresult EXCEPT ![w] =
                   SRAdd(wresult[w], wurl[w],
                         fetchAndVerifyUrl(responseByUrl, wurl[w], resp, lat))]
            /\ wpc' = [wpc EXCEPT ![w] = "check"]
            /\ completed' = completed + 1
            /\ werr' = werr
    /\ wurl' = [wurl EXCEPT ![w] = ""]
    /\ UNCHANGED <<aggVars, testerVars, initVars, concurrency, cpc, spawned, received,
                   results, parentDone, ctxDone, gErr, ret, issued, sent,
                   wissued, wlate, poolVars,
                   printVars, rampVars, addVars, runVars>>

\* the value a worker sends: StressResult{} on the error path, *result otherwise
WorkerMessage(pc, result) == IF pc = "sendErr" THEN newStressResult ELSE result

\* faulty variant: the worker goes round its loop again after sending
AfterSendPc_KeepsLooping == "check"

\* after rc <- *result (or rc <- StressResult{}) the worker only returns
AfterSendPc == "return"

\* rc <- msg in worker w meets r := <-resultChan; results.merge(&r) in Stress
Deliver(w) ==
    /\ w \in Workers
    /\ wpc[w] \in {"send", "sendErr"}
    /\ cpc = "recv"
    /\ received < concurrency
    /\ results' = SRMerge(results, WorkerMessage(wpc[w], wresult[w]))
    /\ received' = received + 1
    /\ sent' = [sent EXCEPT ![w] = sent[w] + 1]
    /\ wpc' = [wpc EXCEPT ![w] = AfterSendPc]
    /\ cpc' = IF received + 1 = concurrency THEN "wait" ELSE "recv"
    /\ UNCHANGED <<aggVars, testerVars, initVars, concurrency, spawned, wurl, wresult,
                   werr, parentDone, ctxDone, gErr, ret, issued, completed,
                   wissued, wlate, poolVars,
                   printVars, rampVars, addVars, runVars>>

\* errgroup: the first non-nil error a function returns is kept
GroupErr(cur, err) == IF cur = NoErr THEN err ELSE cur

\* errgroup: a function returning a non-nil error cancels the group's context
GroupCancelled(done, err) == done \/ err # NoErr

\* fetchRandomUrls returns werr[w] to the errgroup goroutine, which records it
WorkerReturn(w) ==
    /\ w \in Workers
    /\ wpc[w] = "return"
    /\ wpc' = [wpc EXCEPT ![w] = "exited"]
    /\ gErr' = GroupErr(gErr, werr[w])
    /\ ctxDone' = GroupCancelled(ctxDone, werr[w])
    /\ UNCHANGED <<aggVars, testerVars, initVars, concurrency, cpc, spawned, received,
                   results, wurl, wresult, werr, parentDone, ret, issued, completed, sent,
                   wissued, wlate, poolVars,
                   printVars, rampVars, addVars, runVars>>

\* faulty variant: the merged result is returned together with the error
StressRet_KeepsResult(res, err) ==
    [returned |-> TRUE, hasResult |-> TRUE, result |-> res, err |-> err]

\* err := g.Wait(); if err != nil { return nil, err }; return results, nil
StressRet(res, err) ==
    IF err # NoErr
    THEN [returned |-> TRUE, hasResult |-> FALSE, result |-> newStressResult, err |-> err]
    ELSE [returned |-> TRUE, hasResult |-> TRUE, result |-> res, err |-> NoErr]

\* faulty variant: Stress returns once it has received P messages
WaitReturns_AfterReceive(pcs) == TRUE

\* g.Wait() blocks until every function started with g.Go has returned
WaitReturns(pcs) == \A w \in DOMAIN pcs : pcs[w] = "exited"

\* g.Wait() returns once every worker has returned, and cancels the context
StressReturn ==
    /\ cpc = "wait"
    /\ WaitReturns(wpc)
    /\ ret' = StressRet(results, gErr)
    /\ ctxDone' = TRUE
    /\ cpc' = "returned"
    /\ UNCHANGED <<aggVars, testerVars, initVars, concurrency, spawned, received, results,
                   wpc, wurl, wresult, werr, parentDone, gErr, issued, completed, sent,
                   wissued, wlate, poolVars,
                   printVars, rampVars, addVars, runVars>>

Next ==
    \/ \E P \in 1..MaxP : StressStart(P)
    \/ DeadlineFire
    \/ Spawn
    \/ \E w \in Workers : WorkerCheck(w)
    \/ \E w \in Workers, i \in 1..Len(urls) : WorkerIssue(w, i)
    \/ \E w \in Workers, resp \in FetchOutcomes, lat \in StressLatencies : GetReturn(w, resp, lat)
    \/ \E w \in Workers : Deliver(w)
    \/ \E w \in Workers : WorkerReturn(w)
    \/ StressReturn

Spec == InitStress /\ [][Next]_vars

\* Fair scheduling of the coordinator and of every worker, every issued GET
\* returns, and the deadline fires.
FairSpec ==
    /\ Spec
    /\ WF_vars(\E P \in 1..MaxP : StressStart(P))
    /\ WF_vars(DeadlineFire)
    /\ WF_vars(Spawn)
    /\ WF_vars(StressReturn)
    /\ \A w \in 1..MaxP :
        /\ WF_vars(WorkerCheck(w))
        /\ WF_vars(\E i \in 1..Len(urls) : WorkerIssue(w, i))
        /\ WF_vars(\E resp \in FetchOutcomes, lat \in StressLatencies : GetReturn(w, resp, lat))
        /\ WF_vars(Deliver(w))
        /\ WF_vars(WorkerReturn(w))

\* ================================================================ claims

\* C5: with baseline (S, L) recorded by Init for a URL, a response to that URL
\* is counted in the successes bucket iff its status is S and its body length
\* lies in [max(0, L-10), L+10], and otherwise in the failures bucket.
C5_Classification ==
    (lastFetch.called /\ ~lastFetch.err) =>
        LET u == lastFetch.url
            S == observed[u].status
            L == observed[u].len
            ok == /\ lastFetch.resp.status = S
                  /\ lastFetch.resp.len >= Max2(0, L - 10)
                  /\ lastFetch.resp.len <= L + 10
        IN /\ DOMAIN oneResult = {u}
           /\ oneResult[u].Successes.NumCalls = (IF ok THEN 1 ELSE 0)
           /\ oneResult[u].Failures.NumCalls = (IF ok THEN 0 ELSE 1)

\* a 404 baseline of 3 bytes answered again with 13 bytes: a success
C5_Witness ==
    /\ lastFetch.called /\ ~lastFetch.err
    /\ observed[lastFetch.url] = [status |-> 404, len |-> 3]
    /\ lastFetch.resp = Response(404, 13)
    /\ oneResult[lastFetch.url].Successes.NumCalls = 1

\* C6: Init returns an error iff some probe returned a transport-level error
\* or no probe returned a status in 200..299.
C6_InitErrorIff ==
    initState # "new" =>
        ((initErr # "nil") <=>
            \/ \E i \in 1..Len(probesSent) : probesSent[i].err
            \/ ~\E i \in 1..Len(probesSent) :
                    ~probesSent[i].err /\ probesSent[i].status \in 200..299)

\* Init succeeded although a probe answered 404, another having answered 2xx
C6_Witness ==
    /\ initState = "ready" /\ initErr = "nil"
    /\ \E i \in 1..Len(probesSent), j \in 1..Len(probesSent) :
        probesSent[i].status = 404 /\ probesSent[j].status = 299

\* C7: after a successful Init every ExpectedResponse has the observed status,
\* min_body_len = max(0, observed_len - 10) >= 0, max_body_len = observed_len + 10.
C7_BaselineRange ==
    initState = "ready" =>
        \A i \in 1..Len(urls) :
            LET u == urls[i]
                e == responseByUrl[u]
            IN /\ e.StatusCode = observed[u].status
               /\ e.MinLength = Max2(0, observed[u].len - 10)
               /\ e.MaxLength = observed[u].len + 10
               /\ e.MinLength >= 0
               /\ e.MaxLength >= e.MinLength

\* C8: the empty aggregate is a two-sided identity of merge.
C8_EmptyIsIdentity ==
    \A i \in DOMAIN aggs :
        /\ AggMerge(aggs[i], EmptyAgg) = aggs[i]
        /\ AggMerge(EmptyAgg, aggs[i]) = aggs[i]

\* C9: merge is associative and commutative in all five fields.
C9_MergeAssocComm ==
    \A i \in DOMAIN aggs, j \in DOMAIN aggs, k \in DOMAIN aggs :
        /\ AggMerge(AggMerge(aggs[i], aggs[j]), aggs[k])
             = AggMerge(aggs[i], AggMerge(aggs[j], aggs[k]))
        /\ AggMerge(aggs[i], aggs[j]) = AggMerge(aggs[j], aggs[i])

\* C10: every aggregate with NumCalls > 0 has
\* MinLatency <= TotalLatency / NumCalls <= MaxLatency.
C10_MinAvgMax ==
    \A i \in DOMAIN aggs :
        aggs[i].NumCalls > 0 =>
            /\ aggs[i].MinLatency * aggs[i].NumCalls <= aggs[i].TotalLatency
            /\ aggs[i].TotalLatency <= aggs[i].MaxLatency * aggs[i].NumCalls

\* ---------------------------------------------------------------- Stress claims
\* werr[w] = w stands for the transport error of a GET of worker w
SomeTransportError == \E w \in Workers : werr[w] = w

\* C1: when a worker's GET returns a transport-level error, Stress returns one
\* of the workers' errors and no result, and the shared token is cancelled as
\* soon as a failed worker has returned.
C1_FailFast ==
    /\ (ret.returned /\ SomeTransportError) =>
            /\ ~ret.hasResult
            /\ ret.result = newStressResult
            /\ ret.err # NoErr
            /\ \E w \in Workers : werr[w] = ret.err
    /\ \A w \in Workers : (wpc[w] = "exited" /\ werr[w] # NoErr) => ctxDone

\* a failed stage returned before the deadline, another worker having left
\* through the token check with its partial result
C1_Witness ==
    /\ ret.returned /\ ~ret.hasResult /\ ~parentDone
    /\ \E w \in Workers, v \in Workers :
        /\ werr[w] # NoErr
        /\ werr[v] = NoErr /\ DOMAIN wresult[v] # {}

\* C2: in a stage without transport error Stress returns, after the deadline
\* has fired, a non-nil result and a nil error; no worker reports an error.
C2_DeadlineIsNotAnError ==
    /\ (ret.returned /\ ~SomeTransportError) =>
            /\ ret.hasResult
            /\ ret.err = NoErr
            /\ gErr = NoErr
            /\ parentDone
    /\ \A w \in Workers : werr[w] \in {NoErr, w}

C2_Witness ==
    /\ ret.returned /\ ret.hasResult /\ parentDone
    /\ concurrency = MaxP
    /\ \A w \in Workers : DOMAIN wresult[w] # {}

\* C3: under fair scheduling Stress eventually returns; every worker has then
\* sent exactly one message and the coordinator has received exactly P.
C3_StressReturns ==
    /\ (cpc = "spawn") ~> (cpc = "returned")
    /\ [](\A w \in Workers : sent[w] <= 1)
    /\ [](cpc = "returned" =>
            /\ received = concurrency
            /\ \A w \in Workers : sent[w] = 1 /\ wpc[w] = "exited")

\* a returned stage in which one worker left on the error path and another on
\* the token path
C3_Witness ==
    /\ cpc = "returned"
    /\ concurrency = MaxP
    /\ \E w \in Workers, v \in Workers : werr[w] # NoErr /\ werr[v] = NoErr

RECURSIVE SumWorkerCalls(_)
SumWorkerCalls(ws) ==
    IF ws = {} THEN 0
    ELSE LET w == CHOOSE x \in ws : TRUE
         IN TotalCalls(wresult[w]) + SumWorkerCalls(ws \ {w})

\* C4: in a stage without transport error the result returned by Stress counts
\* every completed GET exactly once; the recorded requests never exceed the
\* GETs issued.
C4_EveryGetCountedOnce ==
    /\ (ret.returned /\ ret.hasResult) => TotalCalls(ret.result) = completed
    /\ SumWorkerCalls(Workers) = completed
    /\ completed <= issued
    /\ TotalCalls(results) <= issued

\* two workers recorded a request to the same URL, one of them in flight when
\* the token fired
C4_Witness ==
    /\ ret.returned /\ ret.hasResult
    /\ completed = MaxGets
    /\ \E w \in Workers, v \in Workers :
        w # v /\ DOMAIN wresult[w] \cap DOMAIN wresult[v] # {}

\* ---------------------------------------------------------------- buffers
\* C16: every request and response object acquired for a request attempt is
\* released when the attempt is over, so none is outstanding while no attempt
\* is in progress.
C16_BuffersReleased ==
    (\A w \in DOMAIN wpc : wpc[w] # "inflight") => outstanding = 0

\* ---------------------------------------------------------------- token and order
\* C18: a worker issues a GET only in an iteration whose check found the token
\* not fired, starts at most one GET after the token fired, and none once it
\* has observed the token.
C18_TokenCheckedBeforeEveryRequest ==
    /\ [](\A w \in Workers : wlate[w] <= 1)
    /\ [][\A w \in Workers :
            /\ (wpc[w] = "check" /\ ctxDone) => wpc'[w] # "issue"
            /\ wpc[w] \in {"send", "sendErr", "return", "exited"} =>
                    wissued'[w] = wissued[w]
            /\ wissued'[w] # wissued[w] => wpc[w] = "issue"]_vars

\* a worker whose check preceded the firing started one GET after it and then left
C18_Witness ==
    \E w \in Workers : wlate[w] = 1 /\ wpc[w] = "exited" /\ werr[w] = NoErr

\* results.merge applied to the workers' results in the order given by seq
RECURSIVE MergeInOrder(_, _)
MergeInOrder(seq, acc) ==
    IF seq = <<>> THEN acc
    ELSE MergeInOrder(Tail(seq), SRMerge(acc, wresult[Head(seq)]))

ArrivalOrders ==
    {f \in [Workers -> Workers] : \A v, w \in Workers : f[v] = f[w] => v = w}

\* C19: the result returned by Stress is the same for every order in which
\* the coordinator receives the workers' results.
C19_ArrivalOrderIrrelevant ==
    (ret.returned /\ ret.hasResult) =>
        \A f \in ArrivalOrders : MergeInOrder(f, newStressResult) = ret.result

\* number of GETs of worker w that returned (recorded, or failed)
Finished(w) == TotalCalls(wresult[w]) + (IF werr[w] = w THEN 1 ELSE 0)

\* C20: each worker has at most one GET in flight, issues the next only after
\* the previous one returned and was recorded, and at most P are in flight.
C20_OneRequestPerWorker ==
    /\ \A w \in Workers :
        /\ wissued[w] - Finished(w) \in {0, 1}
        /\ wissued[w] - Finished(w) = 1 <=> wpc[w] = "inflight"
    /\ issued - completed - Cardinality({w \in Workers : werr[w] = w}) <= concurrency

\* a worker's second GET is in flight, its first one recorded, while another
\* worker runs beside it
C20_Witness ==
    /\ concurrency = MaxP
    /\ \E w \in Workers :
        wpc[w] = "inflight" /\ wissued[w] = 2 /\ TotalCalls(wresult[w]) = 1

\* ================================================================ SpecPrint
\* (r *StressResult) String(): the table of per-URL results.

PrintUrls == {"/B", "/a", "/a/b", "/ab"}

\* the bytes of each key, as Go compares and measures strings
UrlBytes ==
    [u \in PrintUrls |->
        CASE u = "/B" -> <<47, 66>>
          [] u = "/a" -> <<47, 97>>
          [] u = "/a/b" -> <<47, 97, 47, 98>>
          [] u = "/ab" -> <<47, 97, 98>>]

\* Go's < on strings: bytewise, a proper prefix sorts first
RECURSIVE BytesLess(_, _)
BytesLess(a, b) ==
    IF b = <<>> THEN FALSE
    ELSE IF a = <<>> THEN TRUE
    ELSE IF Head(a) # Head(b) THEN Head(a) < Head(b)
    ELSE BytesLess(Tail(a), Tail(b))

StringLess(u, v) == BytesLess(UrlBytes[u], UrlBytes[v])

RECURSIVE Insert(_, _)
Insert(sorted, u) ==
    IF sorted = <<>> THEN <<u>>
    ELSE IF StringLess(u, Head(sorted)) THEN <<u>> \o sorted
    ELSE <<Head(sorted)>> \o Insert(Tail(sorted), u)

\* faulty variant: the keys are printed in the order the map yielded them
sortStrings_Skipped(us) == us

\* sort.Strings(urls)
RECURSIVE sortStrings(_)
sortStrings(us) ==
    IF us = <<>> THEN <<>> ELSE Insert(sortStrings(Tail(us)), Head(us))

\* lenLongestUrl
RECURSIVE lenLongestUrl(_)
lenLongestUrl(us) ==
    IF us = <<>> THEN 0
    ELSE Max2(Len(UrlBytes[Head(us)]), lenLongestUrl(Tail(us)))

HeadingRow(width) == [kind |-> "heading", urlWidth |-> width]
RuleRow(width) == [kind |-> "rule", urlWidth |-> width]

\* one data row; the float columns are kept as the operands of their division
DataRow(r, u, width) ==
    LET ur == r[u]
        numSucessfulCalls == IF ur.Successes.NumCalls = 0 THEN 1 ELSE ur.Successes.NumCalls
    IN [kind |-> "data", urlWidth |-> width, url |-> u,
        countSuccess |-> ur.Successes.NumCalls,
        countFailure |-> ur.Failures.NumCalls,
        minLatency |-> ur.Successes.MinLatency,
        avgLatency |-> <<ur.Successes.TotalLatency, ur.Successes.NumCalls>>,
        maxLatency |-> ur.Successes.MaxLatency,
        bytesPerResp |-> ur.Successes.TotalBytesReceived \div numSucessfulCalls,
        bytesPerSec |-> <<ur.Successes.TotalBytesReceived, ur.Successes.TotalLatency>>]

\* String, given the order in which maps.Keys returned the keys
String(r, keys) ==
    LET width == lenLongestUrl(keys)
        urls_ == sortStrings(keys)
    IN <<HeadingRow(width), RuleRow(width)>> \o
       [i \in 1..Len(urls_) |-> DataRow(r, urls_[i], width)]

\* the orders in which a map with key set S can be iterated
KeyOrders(S) ==
    {f \in [1..Cardinality(S) -> S] : \A i, j \in 1..Cardinality(S) : f[i] = f[j] => i = j}

\* per-URL entries as add builds them: one success, one failure, or both
PrintRVs ==
    LET ok == UrlResult(TRUE, 1, 1)
        bad == UrlResult(FALSE, 0, 2)
    IN {[EmptyRV EXCEPT !.Successes = AggAdd(EmptyAgg, ok)],
        [EmptyRV EXCEPT !.Failures = AggAdd(EmptyAgg, bad)],
        [Successes |-> AggAdd(EmptyAgg, ok), Failures |-> AggAdd(EmptyAgg, bad)]}

PrintInputs == UNION {[S -> PrintRVs] : S \in SUBSET PrintUrls}

InitPrint ==
    /\ AggIdle /\ TesterNew /\ InitIdle /\ StressIdle /\ RampIdle /\ AddIdle /\ RunIdle
    /\ outstanding = 0
    /\ printIn \in PrintInputs
    /\ printKeys = <<>>
    /\ printOut = <<>>

StringCall(keys) ==
    /\ printOut = <<>>
    /\ printKeys' = keys
    /\ printOut' = String(printIn, keys)
    /\ UNCHANGED <<aggVars, testerVars, initVars, stressVars, poolVars, printIn, rampVars,
                   addVars, runVars>>

NextPrint == \E keys \in KeyOrders(DOMAIN printIn) : StringCall(keys)

SpecPrint == InitPrint /\ [][NextPrint]_vars

\* C17: String writes the two header rows and then exactly one data row per key of
\* ResultsByUrl, in ascending bytewise order of the URL whatever order the map
\* yielded its keys in; with no key it writes the header rows only.
C17_SortedRows ==
    printOut # <<>> =>
        LET n == Len(printOut) IN
        /\ n = 2 + Cardinality(DOMAIN printIn)
        /\ printOut[1].kind = "heading" /\ printOut[2].kind = "rule"
        /\ \A i \in 3..n : printOut[i].kind = "data" /\ printOut[i].url \in DOMAIN printIn
        /\ \A u \in DOMAIN printIn : Cardinality({i \in 3..n : printOut[i].url = u}) = 1
        /\ \A i, j \in 3..n :
              i < j => BytesLess(UrlBytes[printOut[i].url], UrlBytes[printOut[j].url])

C17_Witness ==
    /\ printOut # <<>>
    /\ Len(printKeys) = Cardinality(PrintUrls)
    /\ printKeys[1] = "/ab" /\ printKeys[2] = "/B"
    /\ printOut[3].url = "/B"

\* ================================================================ SpecRamp
\* main: flag validation, Init, and the ramp of Stress stages up to the cap.

\* more stages than any ramp with a step of 1 or more makes below the cap of 512
MaxStages == 512
MaxCount == 2

absoluteMaxConcurrency == 512

CFlags == {0 - 1, 0, 1, 2, 3, 8, 9, 20, 513}
RampStyles == {"doubling", "linear", "exponential"}
RampSteps == {0 - 1, 0, 1, 5}
\* err_threshold as a fraction num/den: 0, 0.05, 0.5, 1 and 1.05
Thresholds ==
    {[num |-> 0, den |-> 1], [num |-> 1, den |-> 20], [num |-> 1, den |-> 2],
     [num |-> 1, den |-> 1], [num |-> 21, den |-> 20]}

FlagSets ==
    [hostEmpty : BOOLEAN, c : CFlags, rampStyle : RampStyles,
     linearRampStep : RampSteps, errorThreshold : Thresholds]

\* *errorThreshold <= 0 || *errorThreshold > 1.0
ThresholdOutOfRange(e) == e.num <= 0 \/ e.num > e.den

\* what tester.Stress(ctx, P) can hand back: an error, or a result whose calls
\* sum to these totals; with no worker (P < 1) there is no call and no error
StageOk(succ, fail) == [err |-> FALSE, numSuccess |-> succ, numFailures |-> fail]
StageErr == [err |-> TRUE, numSuccess |-> 0, numFailures |-> 0]
StageResults(P) ==
    IF P < 1 THEN {StageOk(0, 0)}
    ELSE {StageErr} \cup {StageOk(a, b) : a \in 0..MaxCount, b \in 0..MaxCount}

\* the value stressTestWithConcurrency returns for a result without error;
\* errRate > *errorThreshold is compared on the fractions
stressTestWithConcurrency(out, e) ==
    IF out.numSuccess = 0 THEN FALSE
    ELSE IF out.numFailures * e.den > e.num * out.numSuccess THEN FALSE
    ELSE TRUE

ValidStyle(style) == style \in {"linear", "doubling"}

\* faulty variant: the loop variable is handed back unchanged
increaseConcurrency_Stuck(current, f) == current

\* increaseConcurrency for the two styles it accepts; any other style is fatal
increaseConcurrency(current, f) ==
    IF f.rampStyle = "linear" THEN current + f.linearRampStep ELSE current + current

InitRamp ==
    /\ AggIdle /\ TesterNew /\ InitIdle /\ StressIdle /\ PrintIdle /\ AddIdle /\ RunIdle
    /\ outstanding = 0
    /\ flags \in FlagSets
    /\ mpc = "start"
    /\ concurrencyCap = 0
    /\ mconcurrency = 0
    /\ lastConcurrency = 0
    /\ shouldContinue = FALSE
    /\ poolLimit = <<>>
    /\ probed = FALSE
    /\ stages = <<>>
    /\ stageOut = <<>>

RampFrame == UNCHANGED <<aggVars, testerVars, initVars, stressVars, poolVars, printVars,
                       flags, addVars, runVars>>

\* main lines 33-59: host check, URL construction, clamp, threshold check, NewTester
Validate(urlErr) ==
    LET cap == IF flags.c > absoluteMaxConcurrency THEN absoluteMaxConcurrency ELSE flags.c
    IN
    /\ mpc = "start"
    /\ IF flags.hostEmpty \/ urlErr
       THEN /\ mpc' = "fatal"
            /\ UNCHANGED <<concurrencyCap, poolLimit>>
       ELSE IF ThresholdOutOfRange(flags.errorThreshold)
       THEN /\ mpc' = "fatal"
            /\ concurrencyCap' = cap
            /\ UNCHANGED poolLimit
       ELSE /\ mpc' = "init"
            /\ concurrencyCap' = cap
            /\ poolLimit' = <<cap>>
    /\ UNCHANGED <<mconcurrency, lastConcurrency, shouldContinue, probed, stages, stageOut>>
    /\ RampFrame

\* main lines 60-67: tester.Init(urls), then the loop's initial values
InitCall(initFails) ==
    /\ mpc = "init"
    /\ probed' = TRUE
    /\ IF initFails
       THEN /\ mpc' = "fatal"
            /\ UNCHANGED <<mconcurrency, lastConcurrency, shouldContinue>>
       ELSE /\ mpc' = "loop"
            /\ mconcurrency' = 2
            /\ lastConcurrency' = 1
            /\ shouldContinue' = TRUE
    /\ UNCHANGED <<concurrencyCap, poolLimit, stages, stageOut>>
    /\ RampFrame

\* one iteration of the for loop: condition, body, then the post statement
LoopIteration(out) ==
    /\ mpc = "loop"
    /\ mconcurrency <= concurrencyCap /\ shouldContinue
    /\ Len(stages) < MaxStages
    /\ stages' = Append(stages, mconcurrency)
    /\ stageOut' = out
    /\ IF out.err
       THEN /\ mpc' = "fatal"
            /\ UNCHANGED <<mconcurrency, lastConcurrency, shouldContinue>>
       ELSE /\ shouldContinue' = stressTestWithConcurrency(out, flags.errorThreshold)
            /\ lastConcurrency' = mconcurrency
            /\ IF ValidStyle(flags.rampStyle)
               THEN /\ mconcurrency' = increaseConcurrency(mconcurrency, flags)
                    /\ mpc' = "loop"
               ELSE /\ mpc' = "fatal"
                    /\ UNCHANGED mconcurrency
    /\ UNCHANGED <<concurrencyCap, poolLimit, probed>>
    /\ RampFrame

\* the loop condition is false
LoopExit ==
    /\ mpc = "loop"
    /\ ~(mconcurrency <= concurrencyCap /\ shouldContinue)
    /\ mpc' = "final"
    /\ UNCHANGED <<concurrencyCap, mconcurrency, lastConcurrency, shouldContinue,
                   poolLimit, probed, stages, stageOut>>
    /\ RampFrame

\* main lines 72-76: one more stage at the cap, its return value unused
FinalStage(out) ==
    /\ mpc = "final"
    /\ shouldContinue /\ lastConcurrency # concurrencyCap
    /\ Len(stages) < MaxStages
    /\ stages' = Append(stages, concurrencyCap)
    /\ stageOut' = out
    /\ mpc' = IF out.err THEN "fatal" ELSE "done"
    /\ UNCHANGED <<concurrencyCap, mconcurrency, lastConcurrency, shouldContinue,
                   poolLimit, probed>>
    /\ RampFrame

NoFinalStage ==
    /\ mpc = "final"
    /\ ~(shouldContinue /\ lastConcurrency # concurrencyCap)
    /\ mpc' = "done"
    /\ UNCHANGED <<concurrencyCap, mconcurrency, lastConcurrency, shouldContinue,
                   poolLimit, probed, stages, stageOut>>
    /\ RampFrame

NextRamp ==
    \/ \E urlErr \in BOOLEAN : Validate(urlErr)
    \/ \E initFails \in BOOLEAN : InitCall(initFails)
    \/ \E out \in StageResults(mconcurrency) : LoopIteration(out)
    \/ LoopExit
    \/ \E out \in StageResults(concurrencyCap) : FinalStage(out)
    \/ NoFinalStage

SpecRamp == InitRamp /\ [][NextRamp]_vars

\* ---------------------------------------------------------------- ramp claims
Min2(a, b) == IF a < b THEN a ELSE b

\* 2, 4, 8, ... or 2, 2+s, 2+2s, ... while <= C
RECURSIVE RampValues(_, _, _, _)
RampValues(v, style, s, C) ==
    IF v > C THEN <<>>
    ELSE <<v>> \o RampValues(IF style = "doubling" THEN 2 * v ELSE v + s, style, s, C)

\* the stated sequence: the ramp values, then C unless the last value is C
StatedStages(style, s, C) ==
    LET base == RampValues(2, style, s, C)
    IN IF base = <<>> \/ base[Len(base)] # C THEN Append(base, C) ELSE base

\* the stated condition for the ramp to go on after a stage
StatedContinue(out, e) ==
    out.numSuccess > 0 /\ out.numFailures * e.den <= e.num * out.numSuccess

\* C11: when no stage halts the ramp, a finished run has made exactly the stated
\* sequence of stages (the ramp values up to C, then C if the last one is not C),
\* and no parallelism value is run twice.
C11_StageSequence ==
    /\ ( /\ mpc = "done" /\ shouldContinue
         /\ ValidStyle(flags.rampStyle)
         /\ (flags.rampStyle = "linear" => flags.linearRampStep >= 1) )
       => stages = StatedStages(flags.rampStyle, flags.linearRampStep, concurrencyCap)
    /\ (stages # <<>> /\ shouldContinue /\ ValidStyle(flags.rampStyle))
       => \A i, j \in 1..Len(stages) : stages[i] = stages[j] => i = j

\* C12: for a cap C >= 1 and either ramp style, a finished run in which no stage
\* had zero successes or an error rate above the threshold has run at least one
\* stage, and its last stage had parallelism exactly C.
C12_CapExercised ==
    ( /\ mpc = "done" /\ shouldContinue
      /\ concurrencyCap >= 1
      /\ ValidStyle(flags.rampStyle)
      /\ (stages # <<>> => StatedContinue(stageOut, flags.errorThreshold)) )
    => (stages # <<>> /\ stages[Len(stages)] = concurrencyCap)

\* C13: after a stage of the ramp, the ramp continues iff the stage had successes
\* and failures/successes <= E; once a stage stops the ramp no further stage is
\* started and the run does not end with an error.
C13_ContinueIffWithinThreshold ==
    /\ [][(mpc = "loop" /\ Len(stages') > Len(stages) /\ ~stageOut'.err)
             => (shouldContinue' <=> StatedContinue(stageOut', flags.errorThreshold))]_vars
    /\ [][(stages # <<>> /\ ~shouldContinue) => stages' = stages]_vars
    /\ []((stages # <<>> /\ ~shouldContinue) => mpc # "fatal")

InvalidInput ==
    \/ flags.hostEmpty
    \/ flags.errorThreshold.num <= 0
    \/ flags.errorThreshold.num > flags.errorThreshold.den
    \/ flags.rampStyle \notin {"doubling", "linear"}

\* C14: with an empty host, a threshold outside (0, 1] or a ramp style other than
\* doubling and linear, Init is never called, no stage is run, and the run does
\* not finish normally, whatever the value of -c.
C14_InvalidInputFatalAtStartup ==
    InvalidInput => (~probed /\ stages = <<>> /\ mpc # "done")

\* C15: every parallelism handed to Stress is at least 1 and at most min(c, 512),
\* and NewTester is given min(c, 512).
C15_StressParallelismPositive ==
    /\ \A i \in 1..Len(stages) :
          stages[i] >= 1 /\ stages[i] <= Min2(flags.c, absoluteMaxConcurrency)
    /\ poolLimit # <<>> => poolLimit = <<Min2(flags.c, absoluteMaxConcurrency)>>

\* ================================================================ SpecAdd
\* (r *StressResult) add(url, toAdd) applied repeatedly to a new StressResult.

MaxAdds == 3
AddLatencies == {0, 1, 2}

InitAdd ==
    /\ AggIdle /\ TesterNew /\ InitIdle /\ StressIdle /\ PrintIdle /\ RampIdle /\ RunIdle
    /\ outstanding = 0
    /\ addResult = newStressResult
    /\ addLog = <<>>

\* addResult.add(u, urlResult{isValid: valid, bytesReceived: bytes, latency: lat})
AddCall(u, valid, bytes, lat) ==
    /\ Len(addLog) < MaxAdds
    /\ addResult' = SRAdd(addResult, u, UrlResult(valid, bytes, lat))
    /\ addLog' = Append(addLog, [url |-> u, r |-> UrlResult(valid, bytes, lat)])
    /\ UNCHANGED <<aggVars, testerVars, initVars, stressVars, poolVars, printVars,
                   rampVars, runVars>>

NextAdd ==
    \E u \in URLs, valid \in BOOLEAN, bytes \in ByteCounts, lat \in AddLatencies :
        AddCall(u, valid, bytes, lat)

SpecAdd == InitAdd /\ [][NextAdd]_vars

\* the bucket of r that outcomes of validity valid for URL u are added to
Bucket(r, u, valid) ==
    IF u \notin DOMAIN r THEN EmptyAgg
    ELSE IF valid THEN r[u].Successes ELSE r[u].Failures

\* the outcomes of the log that went to the bucket (u, valid), in order
AddedTo(u, valid) ==
    SelectSeq(addLog, LAMBDA e : e.url = u /\ e.r.isValid = valid)

RECURSIVE SumBytes(_)
SumBytes(es) == IF es = <<>> THEN 0 ELSE Head(es).r.bytesReceived + SumBytes(Tail(es))
RECURSIVE SumLatency(_)
SumLatency(es) == IF es = <<>> THEN 0 ELSE Head(es).r.latency + SumLatency(Tail(es))

\* C22: a bucket that received n >= 1 outcomes, all with positive latency, since
\* the StressResult was new has NumCalls = n, the sums of their bytes and
\* latencies, and the largest and smallest of their latencies; an add changes no
\* bucket other than the one of its URL and validity.
C22_AddAccumulates ==
    /\ [](\A u \in URLs, valid \in BOOLEAN :
            LET es == AddedTo(u, valid)
                b == Bucket(addResult, u, valid)
            IN (Len(es) >= 1 /\ \A k \in 1..Len(es) : es[k].r.latency > 0) =>
                /\ u \in DOMAIN addResult
                /\ b.NumCalls = Len(es)
                /\ b.TotalBytesReceived = SumBytes(es)
                /\ b.TotalLatency = SumLatency(es)
                /\ \E k \in 1..Len(es) : b.MaxLatency = es[k].r.latency
                /\ \A k \in 1..Len(es) : b.MaxLatency >= es[k].r.latency
                /\ \E k \in 1..Len(es) : b.MinLatency = es[k].r.latency
                /\ \A k \in 1..Len(es) : b.MinLatency <= es[k].r.latency)
    /\ [][\A u \in URLs, valid \in BOOLEAN :
            LET last == addLog'[Len(addLog')]
            IN (last.url # u \/ last.r.isValid # valid) =>
                   Bucket(addResult', u, valid) = Bucket(addResult, u, valid)]_vars

C22_Witness ==
    \E u \in URLs :
        /\ Len(AddedTo(u, TRUE)) = MaxAdds
        /\ \A k \in 1..MaxAdds : AddedTo(u, TRUE)[k].r.latency > 0
        /\ addResult[u].Successes.MinLatency < addResult[u].Successes.MaxLatency
        /\ addLog[1].r.latency > addLog[MaxAdds].r.latency

\* ---------------------------------------------------------------- ownership
\* C21: a worker's local StressResult is written only by that worker, while it
\* handles the return of its own GET and before it has sent; once a worker has
\* sent it only returns, so the entries the coordinator holds (its own or those
\* received from workers) are touched by the coordinator alone, and the merged
\* result changes only in the coordinator's receive step.
C21_ExclusiveOwnership ==
    /\ [](\A w \in Workers : sent[w] > 0 => wpc[w] \in {"return", "exited"})
    /\ [][\A w \in Workers :
            /\ wresult'[w] # wresult[w] =>
                  /\ wpc[w] = "inflight" /\ wpc'[w] = "check" /\ sent[w] = 0
                  /\ \A v \in Workers \ {w} : wresult'[v] = wresult[v]
            /\ results' # results =>
                  /\ cpc = "recv"
                  /\ \E v \in Workers :
                        /\ wpc[v] \in {"send", "sendErr"}
                        /\ sent'[v] = sent[v] + 1
                        /\ wresult'[v] = wresult[v]]_vars

C21_Witness ==
    \E v \in Workers, w \in Workers :
        /\ sent[v] = 1 /\ DOMAIN wresult[v] # {}
        /\ DOMAIN results # {}
        /\ wpc[w] = "inflight"

\* ---------------------------------------------------------------- result keys
UrlSet == {urls[i] : i \in 1..Len(urls)}

\* every key is a URL of the Tester and has at least one recorded request
KeysRecorded(r) ==
    /\ DOMAIN r \subseteq UrlSet
    /\ \A u \in DOMAIN r : r[u].Successes.NumCalls + r[u].Failures.NumCalls >= 1

\* C23: the keys of every worker-local result, of the merged result and of the
\* result Stress returns are URLs of the Tester with at least one recorded
\* request; a merge never removes a key, and the returned result has exactly the
\* union of the workers' keys.
C23_ResultKeys ==
    /\ [](/\ \A w \in Workers : KeysRecorded(wresult[w])
          /\ KeysRecorded(results)
          /\ KeysRecorded(ret.result)
          /\ (ret.returned /\ ret.hasResult) =>
                DOMAIN ret.result = UNION {DOMAIN wresult[w] : w \in Workers})
    /\ [][/\ DOMAIN results \subseteq DOMAIN results'
          /\ \A w \in Workers :
                sent'[w] # sent[w] =>
                    DOMAIN results' =
                        DOMAIN results \cup DOMAIN WorkerMessage(wpc[w], wresult[w])]_vars

C23_Witness ==
    /\ ret.returned /\ ret.hasResult
    /\ DOMAIN ret.result = UrlSet
    /\ \E v \in Workers, w \in Workers :
          DOMAIN wresult[v] = {"/a"} /\ DOMAIN wresult[w] = {"/b"}

\* ================================================================ SpecStages
\* main's use of one Tester: Init, then one Stress call after the other.

MaxRuns == 2

\* (URL list, probe answers) pairs given to Init: two that succeed (one of them
\* with a duplicate URL whose second probe overwrites the first) and three that fail
StageInits ==
    {<<StressUrls, StressProbes>>,
     <<(<<"/a", "/a">>), (<<Response(404, 3), Response(200, 12)>>)>>,
     <<(<<"/a">>), (<<Response(404, 3)>>)>>,
     <<StressUrls, (<<Response(200, 12), TransportError>>)>>,
     <<(<<>>), (<<>>)>>}

InitStages == InitTester

\* the next iteration of main's loop (or the final stage): a new context from
\* context.WithTimeout and the next tester.Stress(ctx, P); main only gets here
\* when the previous Stress returned without error
NextStage(P) ==
    /\ cpc = "returned"
    /\ ret.hasResult
    /\ stageNo + 1 < MaxRuns
    /\ stageNo' = stageNo + 1
    /\ leaked' = leaked + Cardinality({w \in Workers : wpc[w] # "exited"})
    /\ concurrency' = P
    /\ cpc' = "spawn"
    /\ spawned' = 0
    /\ received' = 0
    /\ results' = newStressResult
    /\ wpc' = [w \in 1..P |-> "unspawned"]
    /\ wurl' = [w \in 1..P |-> ""]
    /\ wresult' = [w \in 1..P |-> newStressResult]
    /\ werr' = [w \in 1..P |-> NoErr]
    /\ sent' = [w \in 1..P |-> 0]
    /\ wissued' = [w \in 1..P |-> 0]
    /\ wlate' = [w \in 1..P |-> 0]
    /\ parentDone' = FALSE
    /\ ctxDone' = FALSE
    /\ gErr' = NoErr
    /\ ret' = NoReturn
    /\ UNCHANGED <<aggVars, testerVars, initVars, issued, completed, poolVars,
                   printVars, rampVars, addVars>>

NextStages ==
    \/ \E tp \in StageInits : TesterInit(tp[1], tp[2])
    \/ (initState = "ready" /\ \E P \in 1..MaxP : StressStart(P))
    \/ DeadlineFire
    \/ Spawn
    \/ \E w \in Workers : WorkerCheck(w)
    \/ \E w \in Workers, i \in 1..Len(urls) : WorkerIssue(w, i)
    \/ \E w \in Workers, resp \in FetchOutcomes, lat \in StressLatencies : GetReturn(w, resp, lat)
    \/ \E w \in Workers : Deliver(w)
    \/ \E w \in Workers : WorkerReturn(w)
    \/ StressReturn
    \/ \E P \in 1..MaxP : NextStage(P)

SpecStages == InitStages /\ [][NextStages]_vars

\* C24: once Init has returned without error every URL of the list, duplicates
\* included, has an entry in the expected-response table, and from then on no
\* step of any stage, successful or failed, changes the list or the table.
C24_BaselineKept ==
    /\ []((initState = "ready" /\ initErr = "nil") =>
            \A i \in 1..Len(urls) : urls[i] \in DOMAIN responseByUrl)
    /\ [][initState = "ready" =>
            (urls' = urls /\ responseByUrl' = responseByUrl /\ initState' = "ready")]_vars

C24_Witness ==
    /\ urls = <<"/a", "/a">>
    /\ stageNo + 1 = MaxRuns
    /\ \E w \in Workers : wresult[w] # newStressResult
    /\ responseByUrl["/a"] = expectedResponseData(200, 12)

\* C25: when Stress has returned, with a result or an error, every worker it
\* spawned has exited and none of their GETs is in flight; the next stage of the
\* ramp begins only from such a state, so no worker of an earlier stage is
\* still running when it begins.
C25_StagesDoNotOverlap ==
    /\ [](cpc = "returned" =>
            /\ ret.returned
            /\ spawned = concurrency
            /\ \A w \in Workers : wpc[w] = "exited" /\ wurl[w] = "")
    /\ [](leaked = 0)
    /\ [][stageNo' # stageNo =>
            /\ cpc = "returned"
            /\ \A w \in Workers : wpc[w] \notin {"issue", "inflight"}]_vars

C25_Witness ==
    /\ stageNo + 1 = MaxRuns
    /\ issued = MaxGets
    /\ \E w \in Workers : wpc[w] = "inflight" /\ wissued[w] = 1

\* ---------------------------------------------------------------- termination
\* main runs to its end: every stage returns and main takes its next step
FairSpecRamp == SpecRamp /\ WF_vars(NextRamp)

\* the doubling style, or the linear style with a step of at least 1
StepPositive ==
    \/ flags.rampStyle = "doubling"
    \/ (flags.rampStyle = "linear" /\ flags.linearRampStep >= 1)

\* C26: with the doubling style, or the linear style with step >= 1, the stages
\* run have strictly increasing parallelism; the loop is left, without a further
\* loop stage, once the next value exceeds the cap or a stage asked to stop; at
\* most one stage, at the cap, follows; and the program then terminates.
C26_RampTerminates ==
    /\ [][(StepPositive /\ stages' # stages /\ stages # <<>>)
            => (/\ Len(stages') = Len(stages) + 1
                /\ stages'[Len(stages')] > stages[Len(stages)])]_vars
    /\ [][(StepPositive /\ mpc = "loop"
              /\ (mconcurrency > concurrencyCap \/ ~shouldContinue))
            => (mpc' = "final" /\ stages' = stages)]_vars
    /\ [][(StepPositive /\ mpc = "final")
            => (mpc' \in {"done", "fatal"}
                /\ (stages' = stages \/ stages' = Append(stages, concurrencyCap)))]_vars
    /\ [][(mpc \in {"done", "fatal"}) => stages' = stages]_vars
    /\ (StepPositive => <>(mpc \in {"done", "fatal"}))

C26_Witness ==
    /\ mpc = "done"
    /\ flags.rampStyle = "linear" /\ flags.linearRampStep >= 1
    /\ Len(stages) >= 5
    /\ stages[Len(stages)] = concurrencyCap
    /\ stages[Len(stages) - 1] + flags.linearRampStep > concurrencyCap
====
